---- MODULE Spec2Model ----
(***************************************************************************)
(* Request-response service builder of the iceoryx2 python binding         *)
(* (iceoryx2-ffi/python/src/service_builder_request_response.rs) together  *)
(* with the service registry it delegates to.                              *)
(*                                                                         *)
(* The binding's methods are modelled from the source: every configuration *)
(* method clones the wrapped core builder, applies one core setter and     *)
(* wraps the result in the same service kind; every terminal method clones *)
(* the core builder, calls one core operation, maps its error into one     *)
(* exception class and wraps the port factory in the same service kind.    *)
(*                                                                         *)
(* The core builder and the registry (iceoryx2::service::builder::         *)
(* request_response::Builder) are not part of the sources at hand; they    *)
(* are modelled from the design document (sections 3, 4.2, 4.4, 5, 7).     *)
(***************************************************************************)
EXTENDS Integers, Sequences, FiniteSets, TLC

VARIABLES
    builder,    \* builder[p]: the ServiceBuilderRequestResponse process p holds
    derived,    \* derived[p]: the builders p obtained from configuration calls and kept
    declared,   \* declared[p]: per field, the value p last called its setter with
    nset,       \* nset[p]: configuration calls p has made on its builder
    pc,         \* pc[p]: "idle", or the step of the core operation p is in
    req,        \* req[p]: the core request of the terminal call in progress
    retries,    \* retries[p]: iterations open_or_create's loop has used
    ncalls,     \* ncalls[p]: terminal calls p has started
    called,     \* called[p]: the terminal method p last called, with its argument
    ret,        \* ret[p]: what p's last terminal call returned
    handles,    \* handles[p]: the PortFactory handles p holds
    registry,   \* the ServiceDescriptors that exist (both service kinds)
    strategy    \* strategy[p]: the AllocationStrategy values p got by converting, oldest first

vars == <<builder, derived, declared, nset, pc, req, retries, ncalls, called, ret, handles,
          registry, strategy>>

\* ------------------------------------------------------------------ bounds
NumProcs == 2          \* processes of the concurrency specification
MaxCalls == 3          \* terminal operations performed in one run, all processes together
MaxCap == 3            \* capacities range over 0..MaxCap
MaxSetterCalls == 2    \* configuration calls made in one run, all builders together
MaxAttrs == 2          \* entries of an AttributeSpecifier
MaxRequired == 2       \* requirements of an AttributeVerifier
MaxDerived == 2        \* builders kept from configuration calls in one run, all processes together
MaxConversions == 2    \* conversions one process applies to its AllocationStrategy value

\* --------------------------------------------- core constants (design doc)
DefaultCapacity == 2   \* capacity reserved at creation for a max_* left unset
RetryLimit == 3        \* open_or_create's retry bound ("3-5 attempts")

Procs == 1..NumProcs
CfgProcs == {1, 2}

Kinds == {"Ipc", "Local"}
Names == {"svc"}
\* An optional value: Unset, or Some(v).
Unset == {}
Some(v) == {v}
ValueOf(opt) == CHOOSE v \in opt : TRUE

\* ------------------------------------------------------------ TypeContract
TypeDetail(size, alignment, variable) ==
    [size |-> size, alignment |-> alignment, variable |-> variable]

DefaultTypeDetail == TypeDetail(64, 8, FALSE)

\* The type details and alignments the setters are called with.
TypeDetailValues ==
    { DefaultTypeDetail, TypeDetail(128, 8, FALSE),
      TypeDetail(64, 4, FALSE), TypeDetail(64, 8, TRUE) }

AlignmentValues == {4, 8, 16}

CapacityValues == 0..MaxCap

CapacityFields ==
    { "max_active_requests_per_client", "max_loaned_requests",
      "max_response_buffer_size", "max_servers", "max_clients", "max_nodes",
      "max_borrowed_responses_per_pending_response" }

FlagFields ==
    { "enable_safe_overflow_for_requests", "enable_safe_overflow_for_responses",
      "enable_fire_and_forget_requests" }

TypeFields ==
    { "request_payload_type_details", "request_header_type_details",
      "response_payload_type_details", "response_header_type_details" }

AlignmentFields == { "request_payload_alignment", "response_payload_alignment" }

Fields == TypeFields \cup AlignmentFields \cup FlagFields \cup CapacityFields

\* ------------------------------------------------------------ core builder
\* The core builder as constructed for a service name: default type details,
\* nothing else declared.
CoreBuilderNew(name) ==
    [ name |-> name,
      request_payload_type_details |-> DefaultTypeDetail,
      request_header_type_details |-> DefaultTypeDetail,
      response_payload_type_details |-> DefaultTypeDetail,
      response_header_type_details |-> DefaultTypeDetail,
      request_payload_alignment |-> Unset,
      response_payload_alignment |-> Unset,
      enable_safe_overflow_for_requests |-> Unset,
      enable_safe_overflow_for_responses |-> Unset,
      enable_fire_and_forget_requests |-> Unset,
      max_active_requests_per_client |-> Unset,
      max_loaned_requests |-> Unset,
      max_response_buffer_size |-> Unset,
      max_servers |-> Unset,
      max_clients |-> Unset,
      max_nodes |-> Unset,
      max_borrowed_responses_per_pending_response |-> Unset ]

\* The core setters: pure transformers of one field of the configuration.
\* Type details replace the default; every other field becomes declared.
CoreSet(core, field, value) == [core EXCEPT ![field] = value]

CoreDeclare(core, field, value) == [core EXCEPT ![field] = Some(value)]

\* -------------------------------------------------- the binding's builder
\* ServiceBuilderRequestResponse(ServiceBuilderRequestResponseType): the enum
\* variant (service kind) around the core builder.
Ipc(core) == [kind |-> "Ipc", core |-> core]
Local(core) == [kind |-> "Local", core |-> core]

ServiceBuilderRequestResponseType(kind, core) ==
    IF kind = "Ipc" THEN Ipc(core) ELSE Local(core)

\* match &self.0 { Ipc(v) => Self(Ipc(f(v.clone()))), Local(v) => Self(Local(f(v.clone()))) }
request_payload_type_details(self, value) ==
    IF self.kind = "Ipc"
    THEN Ipc(CoreSet(self.core, "request_payload_type_details", value))
    ELSE Local(CoreSet(self.core, "request_payload_type_details", value))

\* request_header_type_details as it would be had it set the payload's details.
request_header_sets_request_payload(self, value) ==
    IF self.kind = "Ipc"
    THEN Ipc(CoreSet(self.core, "request_payload_type_details", value))
    ELSE Local(CoreSet(self.core, "request_payload_type_details", value))

request_header_type_details(self, value) ==
    IF self.kind = "Ipc"
    THEN Ipc(CoreSet(self.core, "request_header_type_details", value))
    ELSE Local(CoreSet(self.core, "request_header_type_details", value))

response_payload_type_details(self, value) ==
    IF self.kind = "Ipc"
    THEN Ipc(CoreSet(self.core, "response_payload_type_details", value))
    ELSE Local(CoreSet(self.core, "response_payload_type_details", value))

response_header_type_details(self, value) ==
    IF self.kind = "Ipc"
    THEN Ipc(CoreSet(self.core, "response_header_type_details", value))
    ELSE Local(CoreSet(self.core, "response_header_type_details", value))

\* request_payload_alignment as it would be had the binding raised an override
\* below the natural alignment of the request payload to that alignment.
request_payload_alignment_raised(self, value) ==
    LET natural == self.core.request_payload_type_details.alignment
        raised == IF value < natural THEN natural ELSE value
    IN IF self.kind = "Ipc"
       THEN Ipc(CoreDeclare(self.core, "request_payload_alignment", raised))
       ELSE Local(CoreDeclare(self.core, "request_payload_alignment", raised))

request_payload_alignment(self, value) ==
    IF self.kind = "Ipc"
    THEN Ipc(CoreDeclare(self.core, "request_payload_alignment", value))
    ELSE Local(CoreDeclare(self.core, "request_payload_alignment", value))

response_payload_alignment(self, value) ==
    IF self.kind = "Ipc"
    THEN Ipc(CoreDeclare(self.core, "response_payload_alignment", value))
    ELSE Local(CoreDeclare(self.core, "response_payload_alignment", value))

enable_safe_overflow_for_requests(self, value) ==
    IF self.kind = "Ipc"
    THEN Ipc(CoreDeclare(self.core, "enable_safe_overflow_for_requests", value))
    ELSE Local(CoreDeclare(self.core, "enable_safe_overflow_for_requests", value))

enable_safe_overflow_for_responses(self, value) ==
    IF self.kind = "Ipc"
    THEN Ipc(CoreDeclare(self.core, "enable_safe_overflow_for_responses", value))
    ELSE Local(CoreDeclare(self.core, "enable_safe_overflow_for_responses", value))

\* enable_fire_and_forget_requests as it would be had it been copied from
\* enable_safe_overflow_for_responses unchanged.
enable_fire_and_forget_sets_overflow(self, value) ==
    IF self.kind = "Ipc"
    THEN Ipc(CoreDeclare(self.core, "enable_safe_overflow_for_responses", value))
    ELSE Local(CoreDeclare(self.core, "enable_safe_overflow_for_responses", value))

enable_fire_and_forget_requests(self, value) ==
    IF self.kind = "Ipc"
    THEN Ipc(CoreDeclare(self.core, "enable_fire_and_forget_requests", value))
    ELSE Local(CoreDeclare(self.core, "enable_fire_and_forget_requests", value))

max_active_requests_per_client(self, value) ==
    IF self.kind = "Ipc"
    THEN Ipc(CoreDeclare(self.core, "max_active_requests_per_client", value))
    ELSE Local(CoreDeclare(self.core, "max_active_requests_per_client", value))

max_loaned_requests(self, value) ==
    IF self.kind = "Ipc"
    THEN Ipc(CoreDeclare(self.core, "max_loaned_requests", value))
    ELSE Local(CoreDeclare(self.core, "max_loaned_requests", value))

max_response_buffer_size(self, value) ==
    IF self.kind = "Ipc"
    THEN Ipc(CoreDeclare(self.core, "max_response_buffer_size", value))
    ELSE Local(CoreDeclare(self.core, "max_response_buffer_size", value))

\* max_servers as it would be had the binding raised a zero to one.
max_servers_at_least_one(self, value) ==
    IF self.kind = "Ipc"
    THEN Ipc(CoreDeclare(self.core, "max_servers", IF value = 0 THEN 1 ELSE value))
    ELSE Local(CoreDeclare(self.core, "max_servers", IF value = 0 THEN 1 ELSE value))

max_servers(self, value) ==
    IF self.kind = "Ipc"
    THEN Ipc(CoreDeclare(self.core, "max_servers", value))
    ELSE Local(CoreDeclare(self.core, "max_servers", value))

\* max_clients as it would be had it been copied from max_servers unchanged.
max_clients_sets_max_servers(self, value) ==
    IF self.kind = "Ipc"
    THEN Ipc(CoreDeclare(self.core, "max_servers", value))
    ELSE Local(CoreDeclare(self.core, "max_servers", value))

max_clients(self, value) ==
    IF self.kind = "Ipc"
    THEN Ipc(CoreDeclare(self.core, "max_clients", value))
    ELSE Local(CoreDeclare(self.core, "max_clients", value))

\* max_nodes as it would be had its Local arm wrapped the result as Ipc.
max_nodes_wraps_as_ipc(self, value) ==
    Ipc(CoreDeclare(self.core, "max_nodes", value))

max_nodes(self, value) ==
    IF self.kind = "Ipc"
    THEN Ipc(CoreDeclare(self.core, "max_nodes", value))
    ELSE Local(CoreDeclare(self.core, "max_nodes", value))

max_borrowed_responses_per_pending_response(self, value) ==
    IF self.kind = "Ipc"
    THEN Ipc(CoreDeclare(self.core, "max_borrowed_responses_per_pending_response", value))
    ELSE Local(CoreDeclare(self.core, "max_borrowed_responses_per_pending_response", value))

\* ----------------------------------------- AttributeSet / AttributeVerifier
Keys == {"env", "tag"}
Values == {"prod", "dev"}
Pairs == Keys \X Values

\* AttributeSpecifier: the ordered entries, duplicate keys allowed.
NoAttributes == << >>

\* AttributeVerifier: the required (key, value) pairs and the required keys.
AttributeVerifier(required, keys) == [required |-> required, keys |-> keys]

NoVerifier == AttributeVerifier({}, {})

\* The specifiers and verifiers the *_with_attributes methods are called with.
AttributeSets == UNION { [1..n -> Pairs] : n \in 0..MaxAttrs }

Verifiers ==
    { AttributeVerifier(R, K) : R \in SUBSET Pairs, K \in SUBSET Keys }

Entries(attributes) == { attributes[i] : i \in 1..Len(attributes) }

\* Design doc 4.2: every required pair has an entry with that key and value,
\* every required key has an entry with that key.
Satisfies(attributes, verifier) ==
    /\ \A r \in verifier.required :
          \E i \in 1..Len(attributes) : attributes[i] = r
    /\ \A k \in verifier.keys :
          \E i \in 1..Len(attributes) : attributes[i][1] = k

\* The entries a verifier's required pairs define when it creates the service,
\* in the order the pairs are kept.
PairOrder == << <<"env", "prod">>, <<"env", "dev">>, <<"tag", "prod">>, <<"tag", "dev">> >>

SeqOf(set) == SelectSeq(PairOrder, LAMBDA x : x \in set)

\* ------------------------------------------------ the terminal operations
\* What a terminal method of the binding does with `self`: the core operation
\* it calls on a clone of the core builder, with which arguments, the exception
\* class its error is mapped into, and the kind of the port factory it wraps.
CoreCall(op, kind, this, attributes, verifier, exception) ==
    [ op |-> op, kind |-> kind, this |-> this, attributes |-> attributes,
      verifier |-> verifier, exception |-> exception ]

NoRequest ==
    CoreCall("none", "Ipc", CoreBuilderNew("svc"), NoAttributes, NoVerifier, "none")

\* open_or_create as it would be had it been copied from create unchanged.
open_or_create_calls_create(self) ==
    IF self.kind = "Ipc"
    THEN CoreCall("create", "Ipc", self.core, NoAttributes, NoVerifier,
                  "RequestResponseOpenOrCreateError")
    ELSE CoreCall("create", "Local", self.core, NoAttributes, NoVerifier,
                  "RequestResponseOpenOrCreateError")

\* open_or_create as it would be had its error mapping been copied from open.
open_or_create_raises_open_error(self) ==
    IF self.kind = "Ipc"
    THEN CoreCall("open_or_create", "Ipc", self.core, NoAttributes, NoVerifier,
                  "RequestResponseOpenError")
    ELSE CoreCall("open_or_create", "Local", self.core, NoAttributes, NoVerifier,
                  "RequestResponseOpenError")

open_or_create(self) ==
    IF self.kind = "Ipc"
    THEN CoreCall("open_or_create", "Ipc", self.core, NoAttributes, NoVerifier,
                  "RequestResponseOpenOrCreateError")
    ELSE CoreCall("open_or_create", "Local", self.core, NoAttributes, NoVerifier,
                  "RequestResponseOpenOrCreateError")

\* open_or_create_with_attributes as it would be had it not handed on its
\* verifier.
open_or_create_with_attributes_unverified(self, verifier) ==
    IF self.kind = "Ipc"
    THEN CoreCall("open_or_create", "Ipc", self.core, NoAttributes, NoVerifier,
                  "RequestResponseOpenOrCreateError")
    ELSE CoreCall("open_or_create", "Local", self.core, NoAttributes, NoVerifier,
                  "RequestResponseOpenOrCreateError")

open_or_create_with_attributes(self, verifier) ==
    IF self.kind = "Ipc"
    THEN CoreCall("open_or_create", "Ipc", self.core, SeqOf(verifier.required), verifier,
                  "RequestResponseOpenOrCreateError")
    ELSE CoreCall("open_or_create", "Local", self.core, SeqOf(verifier.required), verifier,
                  "RequestResponseOpenOrCreateError")

\* open as it would be had its error mapping been copied from open_or_create.
open_raises_open_or_create_error(self) ==
    IF self.kind = "Ipc"
    THEN CoreCall("open", "Ipc", self.core, NoAttributes, NoVerifier,
                  "RequestResponseOpenOrCreateError")
    ELSE CoreCall("open", "Local", self.core, NoAttributes, NoVerifier,
                  "RequestResponseOpenOrCreateError")

\* open as it would be had it forwarded to the core's create.
open_calls_create(self) ==
    IF self.kind = "Ipc"
    THEN CoreCall("create", "Ipc", self.core, NoAttributes, NoVerifier,
                  "RequestResponseOpenError")
    ELSE CoreCall("create", "Local", self.core, NoAttributes, NoVerifier,
                  "RequestResponseOpenError")

\* open as it would be had it forwarded to the core's open_or_create.
open_calls_open_or_create(self) ==
    IF self.kind = "Ipc"
    THEN CoreCall("open_or_create", "Ipc", self.core, NoAttributes, NoVerifier,
                  "RequestResponseOpenError")
    ELSE CoreCall("open_or_create", "Local", self.core, NoAttributes, NoVerifier,
                  "RequestResponseOpenError")

open(self) ==
    IF self.kind = "Ipc"
    THEN CoreCall("open", "Ipc", self.core, NoAttributes, NoVerifier,
                  "RequestResponseOpenError")
    ELSE CoreCall("open", "Local", self.core, NoAttributes, NoVerifier,
                  "RequestResponseOpenError")

\* open_with_attributes as it would be had it not handed on its verifier.
open_with_attributes_unverified(self, verifier) ==
    IF self.kind = "Ipc"
    THEN CoreCall("open", "Ipc", self.core, NoAttributes, NoVerifier,
                  "RequestResponseOpenError")
    ELSE CoreCall("open", "Local", self.core, NoAttributes, NoVerifier,
                  "RequestResponseOpenError")

open_with_attributes(self, verifier) ==
    IF self.kind = "Ipc"
    THEN CoreCall("open", "Ipc", self.core, NoAttributes, verifier,
                  "RequestResponseOpenError")
    ELSE CoreCall("open", "Local", self.core, NoAttributes, verifier,
                  "RequestResponseOpenError")

\* create as it would be had it been copied from open_or_create unchanged.
create_calls_open_or_create(self) ==
    IF self.kind = "Ipc"
    THEN CoreCall("open_or_create", "Ipc", self.core, NoAttributes, NoVerifier,
                  "RequestResponseCreateError")
    ELSE CoreCall("open_or_create", "Local", self.core, NoAttributes, NoVerifier,
                  "RequestResponseCreateError")

create(self) ==
    IF self.kind = "Ipc"
    THEN CoreCall("create", "Ipc", self.core, NoAttributes, NoVerifier,
                  "RequestResponseCreateError")
    ELSE CoreCall("create", "Local", self.core, NoAttributes, NoVerifier,
                  "RequestResponseCreateError")

\* create_with_attributes as it would be had it not handed on its attributes.
create_with_attributes_unspecified(self, attributes) ==
    IF self.kind = "Ipc"
    THEN CoreCall("create", "Ipc", self.core, NoAttributes, NoVerifier,
                  "RequestResponseCreateError")
    ELSE CoreCall("create", "Local", self.core, NoAttributes, NoVerifier,
                  "RequestResponseCreateError")

create_with_attributes(self, attributes) ==
    IF self.kind = "Ipc"
    THEN CoreCall("create", "Ipc", self.core, attributes, NoVerifier,
                  "RequestResponseCreateError")
    ELSE CoreCall("create", "Local", self.core, attributes, NoVerifier,
                  "RequestResponseCreateError")

\* ------------------------------------------------- ServiceRegistry (core)
\* The static configuration a create fixes: the type contract with the payload
\* alignment overrides applied, the flags and the capacities, defaults filled in.
EffectiveType(detail, override) ==
    IF override = Unset THEN detail
    ELSE [detail EXCEPT !.alignment = ValueOf(override)]

TypeContract(this) ==
    [ request_payload |->
          EffectiveType(this.request_payload_type_details, this.request_payload_alignment),
      request_header |-> this.request_header_type_details,
      response_payload |->
          EffectiveType(this.response_payload_type_details, this.response_payload_alignment),
      response_header |-> this.response_header_type_details ]

DefaultFlag(field) == field # "enable_fire_and_forget_requests"

Flags(this) ==
    [ f \in FlagFields |->
        IF this[f] = Unset THEN DefaultFlag(f) ELSE ValueOf(this[f]) ]

Capacities(this) ==
    [ f \in CapacityFields |->
        IF this[f] = Unset THEN DefaultCapacity ELSE ValueOf(this[f]) ]

\* An alignment override must not be below the natural alignment of its type.
ValidAlignment(this) ==
    /\ this.request_payload_alignment # Unset =>
          ValueOf(this.request_payload_alignment) >= this.request_payload_type_details.alignment
    /\ this.response_payload_alignment # Unset =>
          ValueOf(this.response_payload_alignment) >= this.response_payload_type_details.alignment

\* No declared capacity is zero.
ValidCapacities(this) ==
    \A f \in CapacityFields : this[f] # Unset => ValueOf(this[f]) >= 1

ServiceDescriptor(id, r) ==
    [ id |-> id, kind |-> r.kind, name |-> r.this.name, state |-> "initializing",
      types |-> TypeContract(r.this), flags |-> Flags(r.this),
      capacities |-> Capacities(r.this), attributes |-> r.attributes,
      reference_count |-> 0 ]

\* The descriptors of the registry of service kind `kind` under `name`.
Lookup(reg, kind, name) == { d \in reg : d.kind = kind /\ d.name = name }

\* A registry that exposed a descriptor from the moment its name is claimed.
ExposedWhenClaimed(reg, kind, name) ==
    { d \in reg : d.kind = kind /\ d.name = name }

\* The descriptors an open can see: the registry exposes a descriptor only
\* after it is fully initialized.
Exposed(reg, kind, name) == { d \in Lookup(reg, kind, name) : d.state = "ready" }

\* open's verdict on descriptor d for the requirements of request r.
FlagError(f) ==
    CASE f = "enable_safe_overflow_for_requests" -> "IncompatibleOverflowBehaviorForRequests"
      [] f = "enable_safe_overflow_for_responses" -> "IncompatibleOverflowBehaviorForResponses"
      [] OTHER -> "IncompatibleBehaviorForFireAndForgetRequests"

FlagMismatches(d, this) ==
    { f \in FlagFields : this[f] # Unset /\ ValueOf(this[f]) # d.flags[f] }

CapacityViolations(d, this) ==
    { f \in CapacityFields : this[f] # Unset /\ ValueOf(this[f]) > d.capacities[f] }

Verify(d, r) ==
    IF TypeContract(r.this) # d.types THEN "IncompatibleTypes"
    ELSE IF ~ValidAlignment(r.this) THEN "InvalidAlignment"
    ELSE IF FlagMismatches(d, r.this) # {}
         THEN FlagError(CHOOSE f \in FlagMismatches(d, r.this) : TRUE)
    ELSE IF CapacityViolations(d, r.this) # {} THEN "InsufficientCapacity"
    ELSE IF ~Satisfies(d.attributes, r.verifier) THEN "IncompatibleAttributes"
    ELSE "Ok"

\* create's verdict before it claims the name.
Claimable(reg, r) ==
    IF \E d \in Lookup(reg, r.kind, r.this.name) : d.state = "ready" THEN "AlreadyExists"
    ELSE IF Lookup(reg, r.kind, r.this.name) # {} THEN "InitializationInProgress"
    ELSE IF ~ValidCapacities(r.this) THEN "InvalidConfiguration"
    ELSE IF ~ValidAlignment(r.this) THEN "InvalidAlignment"
    ELSE "Ok"

\* attach / detach on the descriptor with identity id.
Attach(reg, id) ==
    { IF d.id = id
      THEN [d EXCEPT !.state = "ready", !.reference_count = d.reference_count + 1]
      ELSE d : d \in reg }

Detach(reg, id) ==
    { d \in { IF e.id = id THEN [e EXCEPT !.reference_count = e.reference_count - 1]
              ELSE e : e \in reg } : d.id # id \/ d.reference_count > 0 }

\* ------------------------------------------------------------- processes
\* PortFactoryRequestResponse as it would be had the results of all calls of
\* one process shared one reference-counted object instead of a Parc each.
PortFactoryShared(kind, id, call) == [kind |-> kind, id |-> id, call |-> 0]

\* PortFactoryRequestResponse: the descriptor it references and the kind it
\* is tagged with; `call` tells the handles of one process apart.
PortFactoryRequestResponse(kind, id, call) == [kind |-> kind, id |-> id, call |-> call]

\* What a terminal call returned: PyResult<PortFactoryRequestResponse>.
Returned(call, r, error, exception, port_factory, created) ==
    [ call |-> call, req |-> r, error |-> error, exception |-> exception,
      port_factory |-> port_factory, created |-> created ]

\* A terminal method as the caller names it, with the argument it is given.
Method(name, attributes, verifier) ==
    [name |-> name, attributes |-> attributes, verifier |-> verifier]

NoResult == Returned(0, NoRequest, "none", "none", {}, FALSE)

\* Ok(PortFactoryRequestResponse(Parc::new(kind(factory))))
Ok(p, r, id, created) ==
    /\ ret' = [ret EXCEPT ![p] =
          Returned(ncalls[p], r, "Ok", "none",
                   {PortFactoryRequestResponse(r.kind, id, ncalls[p])}, created)]
    /\ handles' = [handles EXCEPT ![p] =
          @ \cup {PortFactoryRequestResponse(r.kind, id, ncalls[p])}]
    /\ pc' = [pc EXCEPT ![p] = "idle"]
    /\ req' = [req EXCEPT ![p] = NoRequest]

\* .map_err(|e| <exception>::new_err(format!("{e:?}")))?
Err(p, r, error) ==
    /\ ret' = [ret EXCEPT ![p] = Returned(ncalls[p], r, error, r.exception, {}, FALSE)]
    /\ pc' = [pc EXCEPT ![p] = "idle"]
    /\ req' = [req EXCEPT ![p] = NoRequest]
    /\ UNCHANGED handles

\* The builders as constructed; nothing configured, called or created yet.
InitBuilders ==
    /\ builder \in [Procs -> { ServiceBuilderRequestResponseType(k, CoreBuilderNew(n)) :
                                 k \in Kinds, n \in Names }]
    /\ derived = [p \in Procs |-> << >>]
    /\ declared = [p \in Procs |-> [f \in Fields |-> Unset]]
    /\ nset = [p \in Procs |-> 0]
    /\ pc = [p \in Procs |-> "idle"]
    /\ req = [p \in Procs |-> NoRequest]
    /\ retries = [p \in Procs |-> 0]
    /\ ncalls = [p \in Procs |-> 0]
    /\ called = [p \in Procs |-> Method("none", NoAttributes, NoVerifier)]
    /\ ret = [p \in Procs |-> NoResult]
    /\ handles = [p \in Procs |-> {}]
    /\ registry = {}

\* No process holds an AllocationStrategy value.
Init == InitBuilders /\ strategy = [p \in Procs |-> << >>]

RECURSIVE Sum(_, _)
Sum(f, S) == IF S = {} THEN 0 ELSE LET x == CHOOSE y \in S : TRUE IN f[x] + Sum(f, S \ {x})

\* Call as it would be had the terminal methods taken the core builder out of
\* `self` instead of cloning it, leaving a freshly constructed one behind.
CallConsuming(p, m, r) ==
    /\ pc[p] = "idle"
    /\ Sum(ncalls, Procs) < MaxCalls
    /\ ncalls' = [ncalls EXCEPT ![p] = @ + 1]
    /\ called' = [called EXCEPT ![p] = m]
    /\ req' = [req EXCEPT ![p] = r]
    /\ pc' = [pc EXCEPT ![p] = IF r.op = "create" THEN "claim" ELSE "open"]
    /\ retries' = [retries EXCEPT ![p] = 0]
    /\ builder' = [builder EXCEPT ![p] =
          ServiceBuilderRequestResponseType(builder[p].kind,
                                            CoreBuilderNew(builder[p].core.name))]
    /\ UNCHANGED <<strategy, derived, declared, nset, ret, handles, registry>>

\* Terminal method m is entered: core request r starts on the clone.
Call(p, m, r) ==
    /\ pc[p] = "idle"
    /\ Sum(ncalls, Procs) < MaxCalls
    /\ ncalls' = [ncalls EXCEPT ![p] = @ + 1]
    /\ called' = [called EXCEPT ![p] = m]
    /\ req' = [req EXCEPT ![p] = r]
    /\ pc' = [pc EXCEPT ![p] = IF r.op = "create" THEN "claim" ELSE "open"]
    /\ retries' = [retries EXCEPT ![p] = 0]
    /\ UNCHANGED <<strategy, builder, derived, declared, nset, ret, handles, registry>>

OpenOrCreate(p) ==
    Call(p, Method("open_or_create", NoAttributes, NoVerifier), open_or_create(builder[p]))

OpenOrCreateWithAttributes(p, verifier) ==
    Call(p, Method("open_or_create_with_attributes", NoAttributes, verifier),
         open_or_create_with_attributes(builder[p], verifier))

Open(p) == Call(p, Method("open", NoAttributes, NoVerifier), open(builder[p]))

OpenWithAttributes(p, verifier) ==
    Call(p, Method("open_with_attributes", NoAttributes, verifier),
         open_with_attributes(builder[p], verifier))

Create(p) == Call(p, Method("create", NoAttributes, NoVerifier), create(builder[p]))

CreateWithAttributes(p, attributes) ==
    Call(p, Method("create_with_attributes", attributes, NoVerifier),
         create_with_attributes(builder[p], attributes))

\* The open step of open and of open_or_create: locate, verify, attach.
OpenStep(p) ==
    /\ pc[p] = "open"
    /\ LET r == req[p]
           found == Exposed(registry, r.kind, r.this.name)
       IN IF found = {}
          THEN IF r.op = "open"
               THEN /\ Err(p, r, "DoesNotExist")
                    /\ UNCHANGED <<registry, retries>>
               ELSE /\ pc' = [pc EXCEPT ![p] = "claim"]
                    /\ UNCHANGED <<req, ret, handles, registry, retries>>
          ELSE \E d \in found :
                  IF Verify(d, r) = "Ok"
                  THEN /\ registry' = Attach(registry, d.id)
                       /\ Ok(p, r, d.id, FALSE)
                       /\ UNCHANGED retries
                  ELSE /\ Err(p, r, Verify(d, r))
                       /\ UNCHANGED <<registry, retries>>
    /\ UNCHANGED <<strategy, builder, derived, declared, nset, ncalls, called>>

\* The atomic name claim of create and of open_or_create.
ClaimStep(p) ==
    /\ pc[p] = "claim"
    /\ LET r == req[p]
           verdict == Claimable(registry, r)
       IN CASE verdict = "Ok" ->
                 /\ registry' = registry \cup {ServiceDescriptor(<<p, ncalls[p]>>, r)}
                 /\ pc' = [pc EXCEPT ![p] = "init"]
                 /\ UNCHANGED <<req, ret, handles, retries>>
            [] verdict \in {"AlreadyExists", "InitializationInProgress"}
               /\ r.op = "open_or_create" ->
                 IF retries[p] + 1 < RetryLimit
                 THEN /\ retries' = [retries EXCEPT ![p] = @ + 1]
                      /\ pc' = [pc EXCEPT ![p] = "open"]
                      /\ UNCHANGED <<req, ret, handles, registry>>
                 ELSE /\ Err(p, r, "RetryLimitExceeded")
                      /\ retries' = [retries EXCEPT ![p] = @ + 1]
                      /\ UNCHANGED registry
            [] OTHER ->
                 /\ Err(p, r, verdict)
                 /\ UNCHANGED <<registry, retries>>
    /\ UNCHANGED <<strategy, builder, derived, declared, nset, ncalls, called>>

\* The creator finishes initialization and attaches: the descriptor is exposed.
InitStep(p) ==
    /\ pc[p] = "init"
    /\ registry' = Attach(registry, <<p, ncalls[p]>>)
    /\ Ok(p, req[p], <<p, ncalls[p]>>, TRUE)
    /\ UNCHANGED <<strategy, builder, derived, declared, nset, ncalls, called, retries>>

\* A PortFactory (with everything derived from it) is released: detach.
Release(p) ==
    /\ pc[p] = "idle"
    /\ \E h \in handles[p] :
          /\ handles' = [handles EXCEPT ![p] = @ \ {h}]
          /\ registry' = Detach(registry, h.id)
    /\ UNCHANGED <<strategy, builder, derived, declared, nset, pc, req, retries, ncalls, called, ret>>

\* ------------------------------------------------------- specifications
\* Concurrency: NumProcs processes, each with a freshly constructed builder.
Next ==
    \E p \in Procs :
        \/ Create(p)
        \/ Open(p)
        \/ OpenOrCreate(p)
        \/ OpenStep(p)
        \/ ClaimStep(p)
        \/ InitStep(p)
        \/ Release(p)

Spec == Init /\ [][Next]_vars

\* Process p calls the configuration method of `field` with `value` on its
\* builder and keeps the builder the method returns.
Configure(p, field, value, b) ==
    /\ pc[p] = "idle"
    /\ ncalls[p] = 0
    /\ Sum(nset, Procs) < MaxSetterCalls
    /\ builder' = [builder EXCEPT ![p] = b]
    /\ declared' = [declared EXCEPT ![p][field] = Some(value)]
    /\ nset' = [nset EXCEPT ![p] = @ + 1]
    /\ UNCHANGED <<strategy, derived, pc, req, retries, ncalls, called, ret, handles, registry>>

SetRequestPayloadTypeDetails(p) ==
    \E v \in TypeDetailValues : Configure(p, "request_payload_type_details", v, request_payload_type_details(builder[p], v))

SetRequestHeaderTypeDetails(p) ==
    \E v \in TypeDetailValues : Configure(p, "request_header_type_details", v, request_header_type_details(builder[p], v))

SetResponsePayloadTypeDetails(p) ==
    \E v \in TypeDetailValues : Configure(p, "response_payload_type_details", v, response_payload_type_details(builder[p], v))

SetResponseHeaderTypeDetails(p) ==
    \E v \in TypeDetailValues : Configure(p, "response_header_type_details", v, response_header_type_details(builder[p], v))

SetRequestPayloadAlignment(p) ==
    \E v \in AlignmentValues : Configure(p, "request_payload_alignment", v, request_payload_alignment(builder[p], v))

SetResponsePayloadAlignment(p) ==
    \E v \in AlignmentValues : Configure(p, "response_payload_alignment", v, response_payload_alignment(builder[p], v))

SetEnableSafeOverflowForRequests(p) ==
    \E v \in BOOLEAN : Configure(p, "enable_safe_overflow_for_requests", v, enable_safe_overflow_for_requests(builder[p], v))

SetEnableSafeOverflowForResponses(p) ==
    \E v \in BOOLEAN : Configure(p, "enable_safe_overflow_for_responses", v, enable_safe_overflow_for_responses(builder[p], v))

SetEnableFireAndForgetRequests(p) ==
    \E v \in BOOLEAN : Configure(p, "enable_fire_and_forget_requests", v, enable_fire_and_forget_requests(builder[p], v))

SetMaxActiveRequestsPerClient(p) ==
    \E v \in CapacityValues : Configure(p, "max_active_requests_per_client", v, max_active_requests_per_client(builder[p], v))

SetMaxLoanedRequests(p) ==
    \E v \in CapacityValues : Configure(p, "max_loaned_requests", v, max_loaned_requests(builder[p], v))

SetMaxResponseBufferSize(p) ==
    \E v \in CapacityValues : Configure(p, "max_response_buffer_size", v, max_response_buffer_size(builder[p], v))

SetMaxServers(p) ==
    \E v \in CapacityValues : Configure(p, "max_servers", v, max_servers(builder[p], v))

SetMaxClients(p) ==
    \E v \in CapacityValues : Configure(p, "max_clients", v, max_clients(builder[p], v))

SetMaxNodes(p) ==
    \E v \in CapacityValues : Configure(p, "max_nodes", v, max_nodes(builder[p], v))

SetMaxBorrowedResponsesPerPendingResponse(p) ==
    \E v \in CapacityValues :
        Configure(p, "max_borrowed_responses_per_pending_response", v, max_borrowed_responses_per_pending_response(builder[p], v))

\* Configuration: two processes of one service kind with freshly constructed
\* builders, which they configure before their terminal call.
InitCfg ==
    /\ Init
    /\ \A p, q \in Procs : builder[p].kind = builder[q].kind

First(p) == ncalls[p] = 0

\* What both roles do in every configuration specification: process 1 creates,
\* process 2 opens, each once and in any order, and both release.
Roles(p) ==
    \/ (First(p) /\ p = 1 /\ Create(p))
    \/ (First(p) /\ p = 2 /\ Open(p))
    \/ OpenStep(p)
    \/ ClaimStep(p)
    \/ InitStep(p)
    \/ Release(p)

\* Capacities: the builders are configured with the seven max_* setters.
NextCap ==
    \E p \in CfgProcs :
        \/ SetMaxActiveRequestsPerClient(p)
        \/ SetMaxLoanedRequests(p)
        \/ SetMaxResponseBufferSize(p)
        \/ SetMaxServers(p)
        \/ SetMaxClients(p)
        \/ SetMaxNodes(p)
        \/ SetMaxBorrowedResponsesPerPendingResponse(p)
        \/ Roles(p)

SpecCap == InitCfg /\ [][NextCap]_vars

\* Types: the builders are configured with the four type-detail setters and
\* the two payload alignment overrides.
NextType ==
    \E p \in CfgProcs :
        \/ SetRequestPayloadTypeDetails(p)
        \/ SetRequestHeaderTypeDetails(p)
        \/ SetResponsePayloadTypeDetails(p)
        \/ SetResponseHeaderTypeDetails(p)
        \/ SetRequestPayloadAlignment(p)
        \/ SetResponsePayloadAlignment(p)
        \/ Roles(p)

SpecType == InitCfg /\ [][NextType]_vars

\* Behaviour: the builders are configured with the three enable_* setters.
NextFlag ==
    \E p \in CfgProcs :
        \/ SetEnableSafeOverflowForRequests(p)
        \/ SetEnableSafeOverflowForResponses(p)
        \/ SetEnableFireAndForgetRequests(p)
        \/ Roles(p)

SpecFlag == InitCfg /\ [][NextFlag]_vars

\* Attributes: two processes of one service kind with freshly constructed
\* builders; process 1 creates with attributes, process 2 opens or
\* opens-or-creates with a verifier, and both release.
NextAttr ==
    \E p \in CfgProcs :
        \/ \E a \in AttributeSets :
              First(p) /\ p = 1 /\ CreateWithAttributes(p, a)
        \/ \E v \in Verifiers :
              /\ Cardinality(v.required) + Cardinality(v.keys) <= MaxRequired
              /\ First(p) /\ p = 2 /\ OpenWithAttributes(p, v)
        \/ \E v \in Verifiers :
              /\ Cardinality(v.required) + Cardinality(v.keys) <= MaxRequired
              /\ First(p) /\ p = 2 /\ OpenOrCreateWithAttributes(p, v)
        \/ OpenStep(p)
        \/ ClaimStep(p)
        \/ InitStep(p)
        \/ Release(p)

SpecAttr == InitCfg /\ [][NextAttr]_vars

\* Creation fixes the descriptor: a capacity and the attributes together, on
\* shorter attribute sets and verifiers. Process 1 creates with attributes,
\* process 2 opens with a verifier or opens-or-creates, and both release.
NextFixed ==
    \E p \in CfgProcs :
        \/ SetMaxClients(p)
        \/ \E a \in AttributeSets :
              Len(a) < MaxAttrs /\ First(p) /\ p = 1 /\ CreateWithAttributes(p, a)
        \/ \E v \in Verifiers :
              /\ Cardinality(v.required) + Cardinality(v.keys) < MaxRequired
              /\ First(p) /\ p = 2 /\ OpenWithAttributes(p, v)
        \/ (First(p) /\ p = 2 /\ OpenOrCreate(p))
        \/ OpenStep(p)
        \/ ClaimStep(p)
        \/ InitStep(p)
        \/ Release(p)

SpecFixed == InitCfg /\ [][NextFixed]_vars

\* ---------------------------------------------------------------- claims
\* The processes whose builder is for service `name` of kind `kind`.
Group(kind, name) ==
    { p \in Procs : builder[p].kind = kind /\ builder[p].core.name = name }

HasReturned(p) == ncalls[p] >= 1 /\ pc[p] = "idle"

Succeeded(p) == HasReturned(p) /\ ret[p].error = "Ok"

\* p has made exactly one terminal call, method `name`, and still holds what
\* that call returned.
OnlyCalled(p, name) ==
    /\ ncalls[p] = 1
    /\ called[p].name = name
    /\ Succeeded(p) => ret[p].port_factory \subseteq handles[p]

\* Process p takes a step of the core operation it is in.
Stepped(p) == pc[p] # "idle" /\ pc'[p] # pc[p]

\* C1: processes racing `create` for one service name, none of them doing
\* anything else: at most one call succeeds, exactly one once all have
\* returned, every other call fails with AlreadyExists or
\* InitializationInProgress (raised as RequestResponseCreateError), and no
\* registry ever holds two descriptors for one name.
C1_CreateRace ==
    /\ \A d, e \in registry : (d.kind = e.kind /\ d.name = e.name) => d = e
    /\ \A k \in Kinds, n \in Names :
         LET G == { p \in Group(k, n) : ncalls[p] >= 1 }
             won == { p \in G : Succeeded(p) }
         IN (\A p \in G : OnlyCalled(p, "create")) =>
               /\ Cardinality(won) <= 1
               /\ \A p \in G \ won : HasReturned(p) =>
                     /\ ret[p].error \in {"AlreadyExists", "InitializationInProgress"}
                     /\ ret[p].exception = "RequestResponseCreateError"
                     /\ ret[p].port_factory = {}
               /\ (G # {} /\ \A p \in G : HasReturned(p)) => Cardinality(won) = 1

\* Every process has called create once on the same service; one call won and
\* one lost to a winner that had not finished initialization.
C1_Witness ==
    /\ \A p, q \in Procs : builder[p] = builder[q]
    /\ \A p \in Procs : OnlyCalled(p, "create") /\ HasReturned(p)
    /\ \E p \in Procs : Succeeded(p)
    /\ \E p \in Procs : ret[p].error = "InitializationInProgress"

\* The descriptors the handles of the processes in G reference.
Referenced(G) == { h.id : h \in UNION { handles[p] : p \in G } }

\* Every process runs one open_or_create on the same fresh service with the
\* same configuration, nothing else happens, and all calls have returned.
AllOpenedOrCreated ==
    /\ \A p, q \in Procs : builder[p] = builder[q]
    /\ \A p \in Procs : OnlyCalled(p, "open_or_create") /\ HasReturned(p)

Ids(reg) == { d.id : d \in reg }

\* Process p is about to run the open step of an `open` call.
AtOpen(p) == called[p].name = "open" /\ pc[p] = "open" /\ Stepped(p)

\* Process p is about to run the name claim of a `create` call.
AtCreate(p) == called[p].name = "create" /\ pc[p] = "claim" /\ Stepped(p)

\* C3: no step of an `open` call adds a descriptor to the registry, and an
\* `open` that finds no descriptor for its name (none created yet, or the
\* descriptor reclaimed) fails with DoesNotExist, raised as
\* RequestResponseOpenError, returns no PortFactory and leaves the registry
\* exactly as it was.
C3_OpenDoesNotExist ==
    [][\A p \in Procs :
          (called[p].name = "open" /\ Stepped(p)) =>
              /\ Ids(registry') = Ids(registry)
              /\ Exposed(registry, builder[p].kind, builder[p].core.name) = {} =>
                    /\ pc'[p] = "idle"
                    /\ ret'[p].error = "DoesNotExist"
                    /\ ret'[p].exception = "RequestResponseOpenError"
                    /\ ret'[p].port_factory = {}
                    /\ handles'[p] = handles[p]
                    /\ registry' = registry]_vars

\* A second `open` of one process has failed with DoesNotExist after another
\* process created the service and released it again: the registry is empty.
C3_Witness ==
    \E p, q \in Procs :
        /\ p # q
        /\ called[p].name = "open" /\ ncalls[p] = 2 /\ HasReturned(p)
        /\ ret[p].error = "DoesNotExist"
        /\ called[q].name = "create" /\ Succeeded(q) /\ handles[q] = {}
        /\ registry = {}

\* C4: a `create` that finds an initialized descriptor for its name fails with
\* AlreadyExists, raised as RequestResponseCreateError, whichever process
\* created the descriptor; the registry (configuration, attributes and
\* reference_count of the descriptor) and every process's handles are
\* unchanged.
C4_CreateAlreadyExists ==
    [][\A p \in Procs :
          (called[p].name = "create" /\ Stepped(p)
           /\ Exposed(registry, builder[p].kind, builder[p].core.name) # {}) =>
              /\ pc'[p] = "idle"
              /\ ret'[p].error = "AlreadyExists"
              /\ ret'[p].exception = "RequestResponseCreateError"
              /\ ret'[p].port_factory = {}
              /\ handles' = handles
              /\ registry' = registry]_vars

\* A process called `create` twice on the same builder: the second call failed
\* with AlreadyExists while the PortFactory of the first is still held.
C4_Witness ==
    \E p \in Procs :
        /\ called[p].name = "create" /\ ncalls[p] = 2 /\ HasReturned(p)
        /\ ret[p].error = "AlreadyExists"
        /\ \E h \in handles[p] : h.id = <<p, 1>>
        /\ \E d \in registry : d.id = <<p, 1>> /\ d.reference_count = 1

\* The PortFactory handles, of all processes, that reference descriptor id.
\* (A process holds at most one handle per call, so the pairs are distinct.)
HandlesOn(hs, id) == { <<p, h>> \in Procs \X UNION { hs[q] : q \in Procs } :
                          h \in hs[p] /\ h.id = id }

\* Some handle is held on the initialized descriptor of the service.
Held(kind, name) ==
    \E d \in Exposed(registry, kind, name) : HandlesOn(handles, d.id) # {}

\* C10: an initialized descriptor leaves the registry exactly in the step
\* that releases the last handle referencing it (reference_count 1 -> 0).
\* While a handle on the service is held, by any process, an `open` attaches
\* to that descriptor and a `create` for its name fails with AlreadyExists;
\* when no descriptor is left for the name, `open` fails with DoesNotExist and
\* `create` claims the name as for a fresh service.
C10_ReclaimedAtZero ==
    [][/\ \A d \in registry :
             d.state = "ready" =>
                /\ d.reference_count = Cardinality(HandlesOn(handles, d.id))
                /\ (d.id \notin Ids(registry')) <=>
                      /\ d.reference_count = 1
                      /\ HandlesOn(handles', d.id) = {}
       /\ \A p \in Procs :
             LET k == builder[p].kind
                 n == builder[p].core.name
             IN /\ AtOpen(p) =>
                      IF Held(k, n)
                      THEN /\ pc'[p] = "idle" /\ ret'[p].error = "Ok"
                           /\ \E d \in Exposed(registry, k, n) :
                                 \E h \in handles'[p] \ handles[p] : h.id = d.id
                      ELSE pc'[p] = "idle" /\ ret'[p].error = "DoesNotExist"
                /\ AtCreate(p) =>
                      IF Held(k, n)
                      THEN /\ pc'[p] = "idle" /\ ret'[p].error = "AlreadyExists"
                           /\ registry' = registry
                      ELSE Lookup(registry, k, n) = {} =>
                              /\ pc'[p] = "init"
                              /\ registry' = registry
                                    \cup {ServiceDescriptor(<<p, ncalls[p]>>, req[p])}]_vars

\* The creator released its handle while an opener still holds one: the
\* descriptor is still registered and the creator's second `create` failed
\* with AlreadyExists.
C10_Witness ==
    \E p, q \in Procs :
        /\ p # q
        /\ handles[q] = {} /\ ncalls[q] = 2 /\ HasReturned(q)
        /\ called[q].name = "create" /\ ret[q].error = "AlreadyExists"
        /\ \E d \in registry :
              /\ d.id = <<q, 1>>
              /\ d.reference_count = 1
              /\ \E h \in handles[p] : h.id = d.id

\* ---- what the users asked for, from the setter calls they made
\* The process whose call created descriptor d.
Creator(d) == d.id[1]

DeclaredCapacity(p, f) ==
    IF declared[p][f] = Unset THEN DefaultCapacity ELSE ValueOf(declared[p][f])

DeclaredFlag(p, f) ==
    IF declared[p][f] = Unset THEN DefaultFlag(f) ELSE ValueOf(declared[p][f])

DeclaredType(p, f) ==
    IF declared[p][f] = Unset THEN DefaultTypeDetail ELSE ValueOf(declared[p][f])

DeclaredContract(p) ==
    [ request_payload |->
          EffectiveType(DeclaredType(p, "request_payload_type_details"),
                        declared[p]["request_payload_alignment"]),
      request_header |-> DeclaredType(p, "request_header_type_details"),
      response_payload |->
          EffectiveType(DeclaredType(p, "response_payload_type_details"),
                        declared[p]["response_payload_alignment"]),
      response_header |-> DeclaredType(p, "response_header_type_details") ]

\* The open step of p's `open` fails with `error` and attaches to nothing.
OpenFails(p, error) ==
    /\ pc'[p] = "idle"
    /\ ret'[p].error = error
    /\ ret'[p].exception = "RequestResponseOpenError"
    /\ ret'[p].port_factory = {}
    /\ handles' = handles
    /\ registry' = registry

\* The open step of p's `open` returns a PortFactory attached to descriptor d.
OpenAttaches(p, d) ==
    /\ pc'[p] = "idle"
    /\ ret'[p].error = "Ok"
    /\ \E h \in ret'[p].port_factory : h.id = d.id /\ h \in handles'[p]
    /\ \E e \in registry' : e.id = d.id /\ e.reference_count = d.reference_count + 1

\* C5: with types and flags as created, `open` of an existing service
\* succeeds if and only if every capacity the opener configured is at most
\* the capacity the creator configured (its default where the creator
\* configured none); otherwise it fails with InsufficientCapacity.
C5_CapacityMinimums ==
    [][\A p \in Procs :
          AtOpen(p) =>
             \A d \in Exposed(registry, builder[p].kind, builder[p].core.name) :
                IF \A f \in CapacityFields :
                        \/ declared[p][f] = Unset
                        \/ ValueOf(declared[p][f]) <= DeclaredCapacity(Creator(d), f)
                THEN OpenAttaches(p, d)
                ELSE OpenFails(p, "InsufficientCapacity")]_vars

\* Created with max_clients = 2, opened with max_clients = 3: the open failed
\* with InsufficientCapacity and the creator still holds the service.
C5_Witness ==
    /\ declared[1]["max_clients"] = Some(2)
    /\ declared[2]["max_clients"] = Some(3)
    /\ called[2].name = "open" /\ HasReturned(2)
    /\ ret[2].error = "InsufficientCapacity"
    /\ \E d \in registry : Creator(d) = 1 /\ HandlesOn(handles, d.id) # {}

\* C7: `open` succeeds only if the opener's four type details, payload
\* alignment overrides applied, equal the creator's; a difference in any of
\* them makes it fail with IncompatibleTypes without attaching.
C7_TypesMustMatch ==
    [][\A p \in Procs :
          AtOpen(p) =>
             \A d \in Exposed(registry, builder[p].kind, builder[p].core.name) :
                /\ ret'[p].error = "Ok" =>
                      /\ DeclaredContract(p) = DeclaredContract(Creator(d))
                      /\ OpenAttaches(p, d)
                /\ (\E t \in DOMAIN DeclaredContract(p) :
                       DeclaredContract(p)[t] # DeclaredContract(Creator(d))[t]) =>
                      OpenFails(p, "IncompatibleTypes")]_vars

\* Created with payload size 64, opened with payload size 128: the open
\* failed with IncompatibleTypes and the descriptor has only its creator.
C7_Witness ==
    /\ declared[1]["request_payload_type_details"] = Unset
    /\ declared[2]["request_payload_type_details"] = Some(TypeDetail(128, 8, FALSE))
    /\ called[2].name = "open" /\ HasReturned(2)
    /\ ret[2].error = "IncompatibleTypes"
    /\ \E d \in registry : Creator(d) = 1 /\ d.reference_count = 1

DeclaredEntries(p) ==
    CASE called[p].name = "create_with_attributes" -> Entries(called[p].attributes)
      [] called[p].name = "open_or_create_with_attributes" -> called[p].verifier.required
      [] OTHER -> {}

\* Descriptor d holds what its creator asked for.
AsCreated(d) ==
    /\ d.capacities = [f \in CapacityFields |-> DeclaredCapacity(Creator(d), f)]
    /\ d.flags = [f \in FlagFields |-> DeclaredFlag(Creator(d), f)]
    /\ d.types = DeclaredContract(Creator(d))
    /\ Entries(d.attributes) = DeclaredEntries(Creator(d))
    /\ called[Creator(d)].name = "create_with_attributes" =>
          d.attributes = called[Creator(d)].attributes

\* C6: every descriptor holds the capacities, flags and attributes its creator
\* asked for, no step of any process changes them while the descriptor
\* exists, and every held PortFactory references such a descriptor: it
\* reports the creator's values, not an opener's minimums or verifier.
C6_FixedAtCreate ==
    /\ [](\A d \in registry : AsCreated(d))
    /\ [](\A p \in Procs : \A h \in handles[p] :
             \E d \in registry : d.id = h.id /\ d.kind = h.kind /\ d.state = "ready")
    /\ [][\A d \in registry : \A e \in registry' :
             e.id = d.id =>
                /\ e.capacities = d.capacities
                /\ e.flags = d.flags
                /\ e.types = d.types
                /\ e.attributes = d.attributes
                /\ e.name = d.name /\ e.kind = d.kind]_vars

\* The opener asked for a lower max_clients than the default the service was
\* created with and for a key only; the creator has released: the opener's
\* PortFactory still reports the creator's capacity and attributes.
C6_Witness ==
    /\ declared[1]["max_clients"] = Unset
    /\ declared[2]["max_clients"] = Some(1)
    /\ called[2].name = "open_with_attributes" /\ Succeeded(2)
    /\ called[2].verifier.required = {} /\ called[2].verifier.keys # {}
    /\ handles[1] = {}
    /\ \E d \in registry :
          /\ Creator(d) = 1
          /\ \E h \in handles[2] : h.id = d.id
          /\ d.capacities["max_clients"] = DefaultCapacity
          /\ d.attributes # NoAttributes

\* Process p is about to run the open step of an `open_with_attributes` call.
AtOpenWithAttributes(p) ==
    called[p].name = "open_with_attributes" /\ pc[p] = "open" /\ Stepped(p)

\* C9: `open_with_attributes` of an existing service (types, flags and
\* capacities as created) succeeds if and only if every required (key, value)
\* pair is among the entries the service was created with and every required
\* key is the key of one of them - whatever the order of the entries, and
\* whichever of several values under one key is required; otherwise it fails
\* with IncompatibleAttributes without attaching.
C9_AttributeMatching ==
    [][\A p \in Procs :
          AtOpenWithAttributes(p) =>
             \A d \in Exposed(registry, builder[p].kind, builder[p].core.name) :
                LET entries == DeclaredEntries(Creator(d))
                    v == called[p].verifier
                IN IF /\ v.required \subseteq entries
                      /\ \A k \in v.keys : \E e \in entries : e[1] = k
                   THEN OpenAttaches(p, d)
                   ELSE OpenFails(p, "IncompatibleAttributes")]_vars

\* Created with two values under one key, env=dev before env=prod; the open
\* requiring (env, prod) succeeded.
C9_Witness ==
    /\ called[1].name = "create_with_attributes"
    /\ called[1].attributes = << <<"env", "dev">>, <<"env", "prod">> >>
    /\ called[2].name = "open_with_attributes"
    /\ called[2].verifier = AttributeVerifier({<<"env", "prod">>}, {})
    /\ Succeeded(2)
    /\ \E d \in registry : Creator(d) = 1 /\ \E h \in handles[2] : h.id = d.id

\* ---- termination
\* Scheduling: every process is a running program, so a terminal operation it
\* has entered keeps taking its steps; all registry operations are synchronous.
Fairness ==
    \A p \in Procs :
        WF_vars(OpenStep(p)) /\ WF_vars(ClaimStep(p)) /\ WF_vars(InitStep(p))

\* Every process calls create, open or open_or_create once, at any moment,
\* and releases what it got.
NextLive ==
    \E p \in Procs :
        \/ (First(p) /\ Create(p))
        \/ (First(p) /\ Open(p))
        \/ (First(p) /\ OpenOrCreate(p))
        \/ OpenStep(p)
        \/ ClaimStep(p)
        \/ InitStep(p)
        \/ Release(p)

SpecLive == Init /\ [][NextLive]_vars /\ Fairness

\* Process p is inside an open_or_create call.
InOpenOrCreate(p) == called[p].name = "open_or_create" /\ pc[p] # "idle"

\* C11: under any interleaving with the create, open, open_or_create and
\* release operations of other processes, an open_or_create call retries
\* fewer than RetryLimit times while it runs, returns (it never loops or
\* blocks forever), and returns either a PortFactory or a
\* RequestResponseOpenOrCreateError - RetryLimitExceeded exactly when its
\* retries reached the bound.
C11_OpenOrCreateTerminates ==
    /\ \A p \in Procs : InOpenOrCreate(p) ~> (pc[p] = "idle")
    /\ [](\A p \in Procs :
             called[p].name = "open_or_create" =>
                /\ retries[p] <= RetryLimit
                /\ InOpenOrCreate(p) => retries[p] < RetryLimit
                /\ HasReturned(p) =>
                      /\ retries[p] = RetryLimit <=> ret[p].error = "RetryLimitExceeded"
                      /\ \/ ret[p].error = "Ok" /\ ret[p].port_factory # {}
                         \/ /\ ret[p].error # "Ok" /\ ret[p].port_factory = {}
                            /\ ret[p].exception = "RequestResponseOpenOrCreateError")

\* An open_or_create has exhausted its retries and returned its terminal
\* error, while the call of another process created the service.
C11_Witness ==
    \E p, q \in Procs :
        /\ p # q
        /\ called[p].name = "open_or_create" /\ HasReturned(p)
        /\ ret[p].error = "RetryLimitExceeded" /\ retries[p] = RetryLimit
        /\ Succeeded(q) /\ ret[q].created

\* Process p is about to run an open step, of whichever terminal operation.
AtOpenStep(p) == pc[p] = "open" /\ Stepped(p)

\* The descriptors of p's service whose creator is still initializing them.
Initializing(p) ==
    { d \in Lookup(registry, builder[p].kind, builder[p].core.name) :
         d.state = "initializing" }

\* C12: an open step that runs between the creator's name claim and the end
\* of its initialization returns no PortFactory and leaves the registry
\* unchanged; a descriptor being initialized has no handle; and an open step
\* that returns a PortFactory attaches to a descriptor whose creating call has
\* returned and which holds exactly what its creator asked for.
C12_NoOpenBeforeInitialized ==
    /\ [](\A d \in registry :
             d.state = "initializing" =>
                /\ d.reference_count = 0
                /\ HandlesOn(handles, d.id) = {}
                /\ pc[Creator(d)] = "init")
    /\ [][\A p \in Procs :
             AtOpenStep(p) =>
                /\ Initializing(p) # {} =>
                      /\ ret'[p].error # "Ok"
                      /\ handles' = handles
                      /\ registry' = registry
                /\ \A h \in handles'[p] \ handles[p] :
                      \E d \in registry :
                         /\ d.id = h.id
                         /\ d.state = "ready"
                         /\ Succeeded(Creator(d)) /\ ret[Creator(d)].created
                         /\ AsCreated(d)
                         /\ \E e \in registry' : e.id = d.id /\ AsCreated(e)']_vars

\* The creator is between its name claim and the end of initialization; the
\* other process's open_or_create has lost the claim once and its next open
\* step, run on the descriptor being initialized, returned nothing.
C12_Witness ==
    /\ pc[1] = "init"
    /\ called[2].name = "open_or_create"
    /\ retries[2] = 1 /\ pc[2] = "claim"
    /\ Initializing(2) # {}

\* ------------------------------------------------------ the builder chain
\* The builder self.field(value) returns, for each of the sixteen
\* configuration methods.
Configured(self, field, value) ==
    CASE field = "request_payload_type_details" -> request_payload_type_details(self, value)
      [] field = "request_header_type_details" -> request_header_type_details(self, value)
      [] field = "response_payload_type_details" -> response_payload_type_details(self, value)
      [] field = "response_header_type_details" -> response_header_type_details(self, value)
      [] field = "request_payload_alignment" -> request_payload_alignment(self, value)
      [] field = "response_payload_alignment" -> response_payload_alignment(self, value)
      [] field = "enable_safe_overflow_for_requests" -> enable_safe_overflow_for_requests(self, value)
      [] field = "enable_safe_overflow_for_responses" -> enable_safe_overflow_for_responses(self, value)
      [] field = "enable_fire_and_forget_requests" -> enable_fire_and_forget_requests(self, value)
      [] field = "max_active_requests_per_client" -> max_active_requests_per_client(self, value)
      [] field = "max_loaned_requests" -> max_loaned_requests(self, value)
      [] field = "max_response_buffer_size" -> max_response_buffer_size(self, value)
      [] field = "max_servers" -> max_servers(self, value)
      [] field = "max_clients" -> max_clients(self, value)
      [] field = "max_nodes" -> max_nodes(self, value)
      [] OTHER -> max_borrowed_responses_per_pending_response(self, value)

\* A configuration method that configured the builder it was called on.
ReceiverConfiguredInPlace(self, returned) == returned

\* The builder a configuration method was called on, after the call: the
\* method borrows it (&self) and configures a clone (v.clone()).
Receiver(self, returned) == self

\* The values the kept builders are configured with.
FurtherValues(field) ==
    IF field \in TypeFields THEN {TypeDetail(128, 8, FALSE)}
    ELSE IF field \in AlignmentFields THEN {16}
    ELSE IF field \in FlagFields THEN BOOLEAN
    ELSE {1, MaxCap}

\* The builder objects process p holds: 0 is builder[p], k is the k-th it kept.
Object(p, i) == IF i = 0 THEN builder[p] ELSE derived[p][i].object

Kept(from, field, value, object) ==
    [from |-> from, field |-> field, value |-> value, object |-> object]

\* p calls a configuration method on one of its builders and keeps the
\* builder it returns beside the one it called it on.
Further(p) ==
    /\ pc[p] = "idle"
    /\ ncalls[p] = 0
    /\ Sum([q \in Procs |-> Len(derived[q])], Procs) < MaxDerived
    /\ \E i \in 0..Len(derived[p]), f \in Fields :
          \E v \in FurtherValues(f) :
             LET returned == Configured(Object(p, i), f, v)
                 after == Receiver(Object(p, i), returned)
             IN /\ builder' = [builder EXCEPT ![p] = IF i = 0 THEN after ELSE @]
                /\ derived' =
                      [derived EXCEPT ![p] =
                          Append([k \in 1..Len(@) |->
                                     IF k = i THEN [@[k] EXCEPT !.object = after] ELSE @[k]],
                                 Kept(i, f, v, returned))]
    /\ UNCHANGED <<strategy, declared, nset, pc, req, retries, ncalls, called, ret, handles, registry>>

\* Process 1 keeps builders from configuration calls, then creates with the
\* builder it started with, and releases.
NextBuilder ==
    \/ Further(1)
    \/ (First(1) /\ Create(1))
    \/ ClaimStep(1)
    \/ InitStep(1)
    \/ Release(1)

SpecBuilder == InitCfg /\ [][NextBuilder]_vars

\* What a builder holds for `field` once it is configured with `value`.
Holding(field, value) == IF field \in TypeFields THEN value ELSE Some(value)

\* C13: a configuration method returns a builder that carries the change -
\* the builder it was called on with exactly that one field configured - and
\* leaves the builder it was called on as it was: no call changes a builder
\* the process already holds, so two builders configured from one builder are
\* independent of each other, and a create on the builder the process started
\* with uses that builder's configuration.
C13_ImmutableBuilder ==
    /\ [](\A p \in Procs : \A k \in 1..Len(derived[p]) :
             LET e == derived[p][k]
                 from == Object(p, e.from)
             IN e.object.core = [from.core EXCEPT ![e.field] = Holding(e.field, e.value)])
    /\ [][\A p \in Procs :
             /\ builder'[p] = builder[p]
             /\ \A k \in 1..Len(derived[p]) : derived'[p][k] = derived[p][k]]_vars
    /\ [](\A p \in Procs :
             /\ builder[p].core = CoreBuilderNew(builder[p].core.name)
             /\ pc[p] # "idle" => req[p].this = builder[p].core)
    /\ [](\A d \in registry : d.capacities = [f \in CapacityFields |-> DefaultCapacity])

\* Process 1 configured its builder in two different ways, with max_clients
\* and with request_payload_type_details, kept both results, and then created
\* the service with the builder it started from.
C13_Witness ==
    /\ Len(derived[1]) = 2
    /\ derived[1][1].from = 0 /\ derived[1][1].field = "max_clients"
    /\ derived[1][1].value = 1
    /\ derived[1][2].from = 0 /\ derived[1][2].field = "request_payload_type_details"
    /\ derived[1][2].object.core["max_clients"] = Unset
    /\ Succeeded(1) /\ ret[1].created
    /\ \E d \in registry : Creator(d) = 1 /\ d.capacities["max_clients"] = DefaultCapacity

\* ------------------------------------- open_or_create_with_attributes
\* The verifiers of at most MaxRequired - 1 requirements.
ShortVerifiers ==
    { v \in Verifiers : Cardinality(v.required) + Cardinality(v.keys) < MaxRequired }

\* Process 2 opens-or-creates with a verifier, having declared the request
\* payload type or not; process 1 creates with attributes or opens with a
\* verifier; each calls once, in any order, and both release.
NextDefine ==
    \E p \in CfgProcs :
        \/ (p = 2 /\ SetRequestPayloadTypeDetails(p))
        \/ \E a \in AttributeSets :
              Len(a) < MaxAttrs /\ First(p) /\ p = 1 /\ CreateWithAttributes(p, a)
        \/ \E v \in ShortVerifiers : First(p) /\ p = 1 /\ OpenWithAttributes(p, v)
        \/ \E v \in ShortVerifiers : First(p) /\ p = 2 /\ OpenOrCreateWithAttributes(p, v)
        \/ OpenStep(p)
        \/ ClaimStep(p)
        \/ InitStep(p)
        \/ Release(p)

SpecDefine == InitCfg /\ [][NextDefine]_vars

\* Descriptor d was created by an open_or_create_with_attributes call.
DefinedByVerifier(d) == called[Creator(d)].name = "open_or_create_with_attributes"

\* The entries meet every requirement of verifier v.
Meets(entries, v) ==
    /\ v.required \subseteq entries
    /\ \A k \in v.keys : \E e \in entries : e[1] = k

\* A service created by open_or_create_with_attributes has the verifier's
\* required pairs as its attributes.
RequiredBecomesAttributes ==
    [](\A d \in registry :
          DefinedByVerifier(d) =>
             Entries(d.attributes) = called[Creator(d)].verifier.required)

\* An open_or_create_with_attributes that finds the service succeeds only if
\* the types match and the existing attributes meet its verifier, fails with
\* IncompatibleTypes or IncompatibleAttributes otherwise, and no step changes
\* the attributes of an existing descriptor.
ExistingIsVerified ==
    [][/\ \A d \in registry : \A e \in registry' :
             e.id = d.id => e.attributes = d.attributes
       /\ \A p \in Procs :
             (called[p].name = "open_or_create_with_attributes" /\ AtOpenStep(p)) =>
                \A d \in Exposed(registry, builder[p].kind, builder[p].core.name) :
                   IF DeclaredContract(p) # DeclaredContract(Creator(d))
                   THEN /\ ret'[p].error = "IncompatibleTypes"
                        /\ ret'[p].exception = "RequestResponseOpenOrCreateError"
                        /\ registry' = registry /\ handles' = handles
                   ELSE IF ~Meets(DeclaredEntries(Creator(d)), called[p].verifier)
                   THEN /\ ret'[p].error = "IncompatibleAttributes"
                        /\ ret'[p].exception = "RequestResponseOpenOrCreateError"
                        /\ registry' = registry /\ handles' = handles
                   ELSE OpenAttaches(p, d)]_vars

\* Process p is about to open, with the verifier that created it and with the
\* creator's types, the service d that open_or_create_with_attributes created.
OpensWithSameVerifier(p, d) ==
    /\ AtOpenWithAttributes(p)
    /\ d \in Exposed(registry, builder[p].kind, builder[p].core.name)
    /\ DefinedByVerifier(d)
    /\ called[p].verifier = called[Creator(d)].verifier
    /\ DeclaredContract(p) = DeclaredContract(Creator(d))

NextErrors ==
    \E p \in CfgProcs :
        \/ (p = 2 /\ SetMaxClients(p))
        \/ (p = 2 /\ SetRequestPayloadTypeDetails(p))
        \/ (First(p) /\ p = 1 /\ Create(p))
        \/ (First(p) /\ p = 2 /\ Open(p))
        \/ \E v \in ShortVerifiers : First(p) /\ p = 2 /\ OpenWithAttributes(p, v)
        \/ (First(p) /\ p = 2 /\ OpenOrCreate(p))
        \/ OpenStep(p)
        \/ ClaimStep(p)
        \/ InitStep(p)
        \/ Release(p)

SpecErrors == InitCfg /\ [][NextErrors]_vars

\* The exception class each terminal method raises.
Raises(name) ==
    CASE name \in {"create", "create_with_attributes"} -> "RequestResponseCreateError"
      [] name \in {"open", "open_with_attributes"} -> "RequestResponseOpenError"
      [] OTHER -> "RequestResponseOpenOrCreateError"

\* Why the step process p is about to take fails, if it does: from what the
\* users configured and called, and what exists.
Cause(p) ==
    LET found == Exposed(registry, builder[p].kind, builder[p].core.name)
        claimed == Lookup(registry, builder[p].kind, builder[p].core.name)
        d == CHOOSE x \in found : TRUE
    IN IF pc[p] = "claim"
       THEN IF found # {} /\ Raises(called[p].name) = "RequestResponseCreateError"
                 THEN "AlreadyExists"
            ELSE IF claimed # {} /\ Raises(called[p].name) = "RequestResponseCreateError"
                 THEN "InitializationInProgress"
            ELSE IF claimed # {} THEN "RetryLimitExceeded"
            ELSE "InvalidConfiguration"
       ELSE IF found = {} THEN "DoesNotExist"
            ELSE IF DeclaredContract(p) # DeclaredContract(Creator(d))
                 THEN "IncompatibleTypes"
            ELSE IF \E f \in CapacityFields :
                       /\ declared[p][f] # Unset
                       /\ ValueOf(declared[p][f]) > DeclaredCapacity(Creator(d), f)
                 THEN "InsufficientCapacity"
            ELSE "IncompatibleAttributes"

\* C15: every terminal call returns either a PortFactory and no error, or an
\* error and no PortFactory; the error is raised as the exception class of
\* the method called (create: RequestResponseCreateError, open and
\* open_with_attributes: RequestResponseOpenError, open_or_create:
\* RequestResponseOpenOrCreateError) and names the cause of the failure: name
\* conflict, not found, type mismatch, capacity violation, attribute mismatch,
\* exhausted retries.
C15_SpecificErrors ==
    /\ [](\A p \in Procs :
             HasReturned(p) =>
                \/ /\ ret[p].error = "Ok"
                   /\ ret[p].exception = "none"
                   /\ Cardinality(ret[p].port_factory) = 1
                \/ /\ ret[p].error \notin {"Ok", "none"}
                   /\ ret[p].exception = Raises(called[p].name)
                   /\ ret[p].port_factory = {})
    /\ [][\A p \in Procs :
             (Stepped(p) /\ pc'[p] = "idle" /\ ret'[p].error # "Ok") =>
                /\ ret'[p].error = Cause(p)
                /\ handles' = handles
                /\ registry' = registry]_vars

\* The service exists with max_clients at its default; the open that asked
\* for more was refused with InsufficientCapacity, raised as
\* RequestResponseOpenError.
C15_Witness ==
    /\ Succeeded(1) /\ called[1].name = "create"
    /\ called[2].name = "open" /\ HasReturned(2)
    /\ declared[2]["max_clients"] = Some(MaxCap)
    /\ ret[2].error = "InsufficientCapacity"
    /\ ret[2].exception = "RequestResponseOpenError"
    /\ ret[2].port_factory = {}

\* ---------------------------------------------------------- service kind
\* p configures the builder it holds with one more configuration method and
\* goes on with the builder that returns.
Chain(p) ==
    \E f \in Fields : \E v \in FurtherValues(f) :
        Configure(p, f, v, Configured(builder[p], f, v))

\* Builders of either kind: process 1 chains configuration methods and ends
\* the chain with any of the six terminal methods; process 2 creates.
NextKind ==
    \/ Chain(1)
    \/ (First(1) /\ Create(1))
    \/ (First(1) /\ CreateWithAttributes(1, NoAttributes))
    \/ (First(1) /\ Open(1))
    \/ (First(1) /\ OpenWithAttributes(1, NoVerifier))
    \/ (First(1) /\ OpenOrCreate(1))
    \/ (First(1) /\ OpenOrCreateWithAttributes(1, NoVerifier))
    \/ (First(2) /\ Create(2))
    \/ \E p \in CfgProcs : OpenStep(p) \/ ClaimStep(p) \/ InitStep(p)

SpecKind == Init /\ [][NextKind]_vars

\* C16: no configuration method changes the kind of the builder it is applied
\* to, and every PortFactory a terminal method returns is tagged with the kind
\* of the builder it was called on and references a service of that kind.
C16_KindPreserved ==
    /\ [][\A p \in Procs : builder'[p].kind = builder[p].kind]_vars
    /\ [](\A p \in Procs :
             /\ builder[p].kind \in Kinds
             /\ \A h \in handles[p] \cup ret[p].port_factory :
                   /\ h.kind = builder[p].kind
                   /\ \A d \in registry : d.id = h.id => d.kind = h.kind)

\* A Local builder was configured twice and then opened the Local service
\* another process created; an Ipc service of that name would not do.
C16_Witness ==
    /\ builder[1].kind = "Local" /\ nset[1] = 2
    /\ declared[1]["max_nodes"] # Unset
    /\ called[1].name = "open" /\ Succeeded(1)
    /\ \E h \in handles[1] : h.kind = "Local" /\ h.id = <<2, 1>>

\* ------------------------------------------------------- zero capacities
\* The claim step of p's `create` fails with `error` and creates nothing.
CreateFails(p, error) ==
    /\ pc'[p] = "idle"
    /\ ret'[p].error = error
    /\ ret'[p].exception = "RequestResponseCreateError"
    /\ ret'[p].port_factory = {}
    /\ handles' = handles
    /\ registry' = registry

\* C17: every max_* capacity of every descriptor in a registry is at least 1;
\* a `create` of a free name that was configured with a max_* of zero fails
\* with InvalidConfiguration and adds no descriptor, and one configured
\* without a zero adds a descriptor whose capacities are those configured,
\* the default where none was.
C17_CapacitiesAtLeastOne ==
    /\ [](\A d \in registry : \A f \in CapacityFields : d.capacities[f] >= 1)
    /\ [][\A p \in Procs :
             (AtCreate(p) /\ Lookup(registry, builder[p].kind, builder[p].core.name) = {}) =>
                IF \E f \in CapacityFields : declared[p][f] = Some(0)
                THEN CreateFails(p, "InvalidConfiguration")
                ELSE ValidAlignment(builder[p].core) =>
                        \E d \in registry' \ registry :
                            /\ Creator(d) = p
                            /\ \A f \in CapacityFields :
                                  d.capacities[f] = DeclaredCapacity(p, f)]_vars

\* A create configured with max_servers = 0 and max_clients = 1 failed with
\* InvalidConfiguration and the registry is empty.
C17_Witness ==
    /\ declared[1]["max_servers"] = Some(0)
    /\ declared[1]["max_clients"] = Some(1)
    /\ called[1].name = "create" /\ HasReturned(1)
    /\ ret[1].error = "InvalidConfiguration"
    /\ ret[1].exception = "RequestResponseCreateError"
    /\ registry = {}

\* ---------------------------------------------------- alignment overrides
\* The payload type details p configured for the payload of `override`.
PayloadOf(override) ==
    IF override = "request_payload_alignment"
    THEN "request_payload_type_details" ELSE "response_payload_type_details"

\* The payload alignment overrides p configured below the natural alignment
\* of the payload type p configured.
TooSmall(p) ==
    { a \in AlignmentFields :
        /\ declared[p][a] # Unset
        /\ ValueOf(declared[p][a]) < DeclaredType(p, PayloadOf(a)).alignment }

\* The payload alignment p asked for: the override, the natural one without.
DeclaredAlignment(p, a) ==
    IF declared[p][a] = Unset THEN DeclaredType(p, PayloadOf(a)).alignment
    ELSE ValueOf(declared[p][a])

StartsOpenOrCreate(p) ==
    pc[p] = "idle" /\ pc'[p] # "idle" /\ called'[p].name = "open_or_create"

\* The order of the steps of p's `open_or_create`, with `lost` the verdicts of
\* a create attempt after which the open is retried: the call starts with an
\* open attempt; a create attempt follows only an open attempt that found no
\* service (DoesNotExist); an open attempt that finds one ends the call, with
\* a PortFactory on the service it found if that is compatible, and adds no
\* descriptor; the open is retried only after a create attempt with a verdict
\* in `lost`; and the call creates only in the create attempt that directly
\* followed the open attempt that found nothing.
StepOrder(p, lost) ==
    LET found == Exposed(registry, builder[p].kind, builder[p].core.name)
    IN /\ StartsOpenOrCreate(p) => pc'[p] = "open"
       /\ (InOpenOrCreate(p) /\ Stepped(p)) =>
             /\ pc'[p] = "claim" => (pc[p] = "open" /\ found = {})
             /\ (pc[p] = "open" /\ found = {}) =>
                   (pc'[p] = "claim" /\ registry' = registry /\ ret'[p] = ret[p])
             /\ (pc[p] = "open" /\ found # {}) =>
                   /\ pc'[p] = "idle"
                   /\ Ids(registry') = Ids(registry)
                   /\ \A d \in found : Verify(d, req[p]) = "Ok" =>
                         /\ ret'[p].error = "Ok" /\ ~ret'[p].created
                         /\ \E h \in ret'[p].port_factory : h.id \in Ids(found)
             /\ pc'[p] = "open" =>
                   /\ pc[p] = "claim"
                   /\ Claimable(registry, req[p]) \in lost
                   /\ retries'[p] = retries[p] + 1
                   /\ registry' = registry
             /\ pc'[p] = "init" =>
                   (pc[p] = "claim" /\ Claimable(registry, req[p]) = "Ok")
             /\ (pc'[p] = "idle" /\ ret'[p].created) => pc[p] = "init"

NextIncompatible ==
    \E p \in CfgProcs :
        \/ (p = 2 /\ nset[p] = 0 /\ SetRequestPayloadTypeDetails(p))
        \/ (p = 2 /\ nset[p] = 0 /\ SetMaxClients(p))
        \/ (p = 2 /\ nset[p] = 0 /\ SetEnableFireAndForgetRequests(p))
        \/ \E a \in AttributeSets :
              Len(a) < MaxAttrs /\ First(p) /\ p = 1 /\ CreateWithAttributes(p, a)
        \/ \E v \in ShortVerifiers : First(p) /\ p = 2 /\ OpenOrCreateWithAttributes(p, v)
        \/ OpenStep(p)
        \/ ClaimStep(p)
        \/ InitStep(p)
        \/ Release(p)

SpecIncompatible == InitCfg /\ [][NextIncompatible]_vars

\* The errors of what p's configuration and verifier do not accept in
\* descriptor d.
Incompatibilities(p, d) ==
    LET entries == DeclaredEntries(Creator(d))
        v == called[p].verifier
    IN  { e \in {"IncompatibleTypes"} :
            DeclaredContract(p) # DeclaredContract(Creator(d)) }
        \cup { FlagError(f) : f \in { g \in FlagFields :
                  /\ declared[p][g] # Unset
                  /\ ValueOf(declared[p][g]) # DeclaredFlag(Creator(d), g) } }
        \cup { e \in {"InsufficientCapacity"} :
                  \E f \in CapacityFields :
                     /\ declared[p][f] # Unset
                     /\ ValueOf(declared[p][f]) > DeclaredCapacity(Creator(d), f) }
        \cup { e \in {"IncompatibleAttributes"} :
                  \/ ~(v.required \subseteq entries)
                  \/ \E k \in v.keys : \A x \in entries : x[1] # k }

\* Process p is about to run an open attempt of an open_or_create call.
AtOpenOfOpenOrCreate(p) ==
    /\ called[p].name \in {"open_or_create", "open_or_create_with_attributes"}
    /\ pc[p] = "open" /\ Stepped(p)

\* C20: an open attempt of `open_or_create` that finds a descriptor its
\* caller's configuration does not fit - another type contract, a declared
\* minimum above the capacity, another value of a declared flag, an unmet
\* attribute requirement - ends the call with the error of one of the misfits,
\* raised as RequestResponseOpenOrCreateError, without a PortFactory and
\* without a retry, and leaves registry and handles as they were: no second
\* descriptor, the existing one and its reference_count unchanged. No name
\* ever has two descriptors.
C20_IncompatibleNotRetried ==
    /\ [](\A d, e \in registry : (d.kind = e.kind /\ d.name = e.name) => d = e)
    /\ [][\A p \in Procs :
             AtOpenOfOpenOrCreate(p) =>
                \A d \in Exposed(registry, builder[p].kind, builder[p].core.name) :
                   IF Incompatibilities(p, d) = {}
                   THEN OpenAttaches(p, d)
                   ELSE /\ pc'[p] = "idle"
                        /\ ret'[p].error \in Incompatibilities(p, d)
                        /\ ret'[p].exception = "RequestResponseOpenOrCreateError"
                        /\ ret'[p].port_factory = {}
                        /\ retries'[p] = retries[p]
                        /\ registry' = registry
                        /\ handles' = handles]_vars

\* Process 1 created the service with the attribute env=dev and holds it;
\* process 2's open_or_create_with_attributes requiring env=prod failed with
\* IncompatibleAttributes at its first open attempt, and the registry holds
\* the one descriptor with its one reference.
C20_Witness ==
    /\ called[1].name = "create_with_attributes"
    /\ called[1].attributes = << <<"env", "dev">> >>
    /\ Succeeded(1)
    /\ called[2].name = "open_or_create_with_attributes"
    /\ called[2].verifier.required = { <<"env", "prod">> }
    /\ HasReturned(2) /\ ret[2].error = "IncompatibleAttributes"
    /\ retries[2] = 0
    /\ \A d \in registry : Creator(d) = 1 /\ d.reference_count = 1
    /\ Cardinality(registry) = 1

\* -------------------------------------------------------- reference_count
\* Process p returns from a terminal operation in this step.
Returns(p) == pc[p] # "idle" /\ pc'[p] = "idle"

\* The reference_count of descriptor id in registry reg, 0 if it has none.
CountOf(reg, id) ==
    IF \E d \in reg : d.id = id
    THEN (CHOOSE d \in reg : d.id = id).reference_count
    ELSE 0

Again(p, name) == ncalls[p] = 0 \/ called[p].name = name

\* Process 1 declares a minimum of clients or a request payload type, or
\* nothing, and then calls one terminal method on its builder again and again,
\* releasing what it got at any moment; process 2 creates once.
NextReuse ==
    \/ SetMaxClients(1)
    \/ SetRequestPayloadTypeDetails(1)
    \/ (Again(1, "create") /\ Create(1))
    \/ (Again(1, "open") /\ Open(1))
    \/ (Again(1, "open_or_create") /\ OpenOrCreate(1))
    \/ (First(2) /\ Create(2))
    \/ \E p \in CfgProcs : OpenStep(p) \/ ClaimStep(p) \/ InitStep(p) \/ Release(p)

SpecReuse == InitCfg /\ [][NextReuse]_vars

\* Core builder `core` holds exactly what p's configuration calls gave it.
AsConfigured(p, core) ==
    \A f \in Fields :
        IF f \in TypeFields THEN core[f] = DeclaredType(p, f)
        ELSE core[f] = declared[p][f]

\* C22: no step of a terminal operation, succeeding or failing, changes the
\* builder it was called on; the builder always holds what it was configured
\* with, and every terminal call, the first as the ones after it, runs with
\* exactly that configuration. open_or_create called twice on one builder,
\* both results kept, has opened the second time: two handles on one
\* descriptor.
C22_BuilderReusable ==
    /\ [][\A p \in Procs :
             (pc[p] # "idle" \/ pc'[p] # "idle") => builder'[p] = builder[p]]_vars
    /\ [](\A p \in Procs :
             /\ AsConfigured(p, builder[p].core)
             /\ pc[p] # "idle" =>
                   /\ req[p].this = builder[p].core
                   /\ req[p].kind = builder[p].kind
             /\ HasReturned(p) =>
                   /\ ret[p].req.this = builder[p].core
                   /\ ret[p].req.kind = builder[p].kind
             /\ (/\ called[p].name = "open_or_create" /\ ncalls[p] = 2
                 /\ Succeeded(p) /\ Cardinality(handles[p]) = 2) =>
                   /\ ~ret[p].created
                   /\ \E d \in registry :
                         /\ d.reference_count >= 2
                         /\ \A h \in handles[p] : h.id = d.id)

\* A builder configured with max_clients = 1: its first open_or_create created
\* the service, its second opened it, both handles are held, and the
\* descriptor has max_clients = 1 and reference_count 2.
C22_Witness ==
    /\ declared[1]["max_clients"] = Some(1)
    /\ builder[1].core.max_clients = Some(1)
    /\ called[1].name = "open_or_create" /\ ncalls[1] = 2 /\ ncalls[2] = 0
    /\ Succeeded(1) /\ ~ret[1].created
    /\ Cardinality(handles[1]) = 2
    /\ \E d \in registry :
          /\ d.id = <<1, 1>> /\ d.reference_count = 2
          /\ d.capacities["max_clients"] = 1

\* ------------------------------------------------ setters and their fields
\* One process configures its builder with any of the sixteen configuration
\* methods, any values, in any order, the same method more than once.
NextSetters ==
    \/ SetRequestPayloadTypeDetails(1)
    \/ SetRequestHeaderTypeDetails(1)
    \/ SetResponsePayloadTypeDetails(1)
    \/ SetResponseHeaderTypeDetails(1)
    \/ SetRequestPayloadAlignment(1)
    \/ SetResponsePayloadAlignment(1)
    \/ SetEnableSafeOverflowForRequests(1)
    \/ SetEnableSafeOverflowForResponses(1)
    \/ SetEnableFireAndForgetRequests(1)
    \/ SetMaxActiveRequestsPerClient(1)
    \/ SetMaxLoanedRequests(1)
    \/ SetMaxResponseBufferSize(1)
    \/ SetMaxServers(1)
    \/ SetMaxClients(1)
    \/ SetMaxNodes(1)
    \/ SetMaxBorrowedResponsesPerPendingResponse(1)

SpecSetters == InitCfg /\ [][NextSetters]_vars

\* The fields p has configured.
ConfiguredFields(p) == { f \in Fields : declared[p][f] # Unset }

\* C23: a configuration call changes the field of its method, to the value
\* given, and no other field, nor the name or the kind, of the builder; the
\* builder holds for every field the last value given for it, the default
\* where none was - whatever the order of the calls that gave them. On a
\* builder that can take two further calls, two calls for different fields
\* give the same builder in either order, and two calls for one field give the
\* builder of the second alone.
C23_SettersIndependent ==
    /\ [][\A p \in Procs :
             nset'[p] # nset[p] =>
                /\ builder'[p].kind = builder[p].kind
                /\ builder'[p].core.name = builder[p].core.name
                /\ LET changed == { g \in Fields :
                                       \/ builder'[p].core[g] # builder[p].core[g]
                                       \/ declared'[p][g] # declared[p][g] }
                   IN \E f \in ConfiguredFields(p)' :
                         /\ changed \subseteq {f}
                         /\ builder'[p].core[f] =
                               IF f \in TypeFields THEN ValueOf(declared'[p][f])
                               ELSE declared'[p][f]]_vars
    /\ [](\A p \in Procs :
             /\ AsConfigured(p, builder[p].core)
             /\ Sum(nset, Procs) + 2 <= MaxSetterCalls =>
                \A f, g \in Fields : \A v \in FurtherValues(f), w \in FurtherValues(g) :
                   IF f = g
                   THEN Configured(Configured(builder[p], f, v), f, w)
                           = Configured(builder[p], f, w)
                   ELSE Configured(Configured(builder[p], f, v), g, w)
                           = Configured(Configured(builder[p], g, w), f, v))

\* max_servers was called twice and nothing else: the builder holds
\* max_servers = MaxCap, and every other field is as constructed.
C23_Witness ==
    /\ nset[1] = 2
    /\ ConfiguredFields(1) = {"max_servers"}
    /\ builder[1].core.max_servers = Some(MaxCap)
    /\ builder[1].core.max_clients = Unset

\* ------------------------------------------------------ AllocationStrategy
\* The variants, of the binding's enum and of the core's.
Variants == {"BestFit", "PowerOfTwo", "Static"}

\* pub enum AllocationStrategy { BestFit, PowerOfTwo, Static }
AllocationStrategy(variant) == [enum |-> "AllocationStrategy", variant |-> variant]

\* iceoryx2::prelude::AllocationStrategy
CoreAllocationStrategy(variant) ==
    [enum |-> "iceoryx2::prelude::AllocationStrategy", variant |-> variant]

\* from_core as it would be had the arms of Static and BestFit been exchanged.
from_core_exchanged(value) ==
    CASE value = CoreAllocationStrategy("Static") -> AllocationStrategy("BestFit")
      [] value = CoreAllocationStrategy("BestFit") -> AllocationStrategy("Static")
      [] value = CoreAllocationStrategy("PowerOfTwo") -> AllocationStrategy("PowerOfTwo")

\* impl From<iceoryx2::prelude::AllocationStrategy> for AllocationStrategy
from_core(value) ==
    CASE value = CoreAllocationStrategy("Static") -> AllocationStrategy("Static")
      [] value = CoreAllocationStrategy("BestFit") -> AllocationStrategy("BestFit")
      [] value = CoreAllocationStrategy("PowerOfTwo") -> AllocationStrategy("PowerOfTwo")

\* impl From<AllocationStrategy> for iceoryx2::prelude::AllocationStrategy
from_binding(value) ==
    CASE value = AllocationStrategy("Static") -> CoreAllocationStrategy("Static")
      [] value = AllocationStrategy("BestFit") -> CoreAllocationStrategy("BestFit")
      [] value = AllocationStrategy("PowerOfTwo") -> CoreAllocationStrategy("PowerOfTwo")

BindingValues == { AllocationStrategy(v) : v \in Variants }
CoreValues == { CoreAllocationStrategy(v) : v \in Variants }

\* The value p holds: the one it got last.
Current(p) == strategy[p][Len(strategy[p])]

\* p converts the binding value it holds into the core's enum.
IntoCore(p) ==
    /\ Len(strategy[p]) \in 1..MaxConversions
    /\ Current(p) \in BindingValues
    /\ strategy' = [strategy EXCEPT ![p] = Append(@, from_binding(Current(p)))]
    /\ UNCHANGED <<builder, derived, declared, nset, pc, req, retries, ncalls, called,
                   ret, handles, registry>>

\* p converts the core value it holds into the binding's enum.
IntoBinding(p) ==
    /\ Len(strategy[p]) \in 1..MaxConversions
    /\ Current(p) \in CoreValues
    /\ strategy' = [strategy EXCEPT ![p] = Append(@, from_core(Current(p)))]
    /\ UNCHANGED <<builder, derived, declared, nset, pc, req, retries, ncalls, called,
                   ret, handles, registry>>

\* Every process starts with any value of either enum.
InitAllocation ==
    /\ InitBuilders
    /\ strategy \in [Procs -> { <<v>> : v \in BindingValues \cup CoreValues }]

NextAllocation == \E p \in Procs : IntoCore(p) \/ IntoBinding(p)

SpecAllocation == InitAllocation /\ [][NextAllocation]_vars

\* C24: from_binding maps the three binding variants one-to-one onto the three
\* core variants and from_core maps them back, each variant to the variant of
\* the same name; every value a process got by a conversion is of the other
\* enum and of the same variant as the value converted, and the value it got
\* by converting there and back is the value it started from.
C24_InverseBijections ==
    /\ { from_binding(v) : v \in BindingValues } = CoreValues
    /\ { from_core(v) : v \in CoreValues } = BindingValues
    /\ \A v \in BindingValues : from_core(from_binding(v)) = v
    /\ \A v \in CoreValues : from_binding(from_core(v)) = v
    /\ \A p \in Procs : \A i \in 1..Len(strategy[p]) :
          /\ i >= 2 =>
                /\ strategy[p][i].variant = strategy[p][i - 1].variant
                /\ strategy[p][i].enum # strategy[p][i - 1].enum
          /\ i >= 3 => strategy[p][i] = strategy[p][i - 2]

\* Process 1 started from the core's Static and converted it to the binding's
\* Static and back; process 2 started from the binding's BestFit and converted
\* it to the core's BestFit and back.
C24_Witness ==
    /\ strategy[1] = << CoreAllocationStrategy("Static"), AllocationStrategy("Static"),
                        CoreAllocationStrategy("Static") >>
    /\ strategy[2] = << AllocationStrategy("BestFit"), CoreAllocationStrategy("BestFit"),
                        AllocationStrategy("BestFit") >>

====
